---- MODULE Spec2Model ----
(***************************************************************************)
(* Model of log_monitor (src/share/log_monitor.hpp): the historical scan   *)
(* that fills initial_lines_ and read_position_, the timer event handler   *)
(* that polls the live files, and call_callback, the incremental read.     *)
(*                                                                         *)
(* Files are byte sequences.  Byte NL is '\n'; the other bytes are the     *)
(* characters 1..NumKeys.  A stream is a record [pos, eof, fail] over the  *)
(* bytes of a file, with std::getline / tellg / seekg as operators.        *)
(***************************************************************************)
EXTENDS Integers, Sequences, FiniteSets, TLC

VARIABLES
  fs,              \* path -> bytes of the file (the file system)
  present,         \* set of paths that exist
  targets,         \* the constructor's targets argument
  size_is_signed,  \* whether filesystem::file_size yields a signed integer type
  pc,              \* "scan" | "timer" (constructor), "done" (alive), "destroyed",
                   \* "crashed"
  cur,             \* <<index into targets, 1 = rotated file | 2 = live file>>
  stream,          \* the std::ifstream of add_initial_lines, or NoStream
  read_position,   \* the local std::streampos of add_initial_lines
  initial_lines_,  \* the member vector of (sort key, line) pairs
  read_position_,  \* the member map path -> std::streampos
  files_,          \* the member vector of monitored paths
  timer_,          \* "null" | "resumed"
  running,         \* number of event handler blocks executing on queue_
  tick_idx,        \* index into files_ of the file the running handler is at
  log,             \* every callback_ invocation so far, in order
  last_read,       \* what the most recent call_callback did
  last_branch,     \* which return of add_initial_line the last scanned line took
  last_erased,     \* number of entries erased after the last scanned line
  scan_count,      \* number of lines the historical scan has processed
  base,            \* path -> content of the file when construction finished
  base_present,    \* the paths that existed when construction finished
  append_only,     \* paths only appended to since construction finished
  reads_since_write, \* path -> number of ticks that invoked the callback for it
                     \* since it was last modified
  released_use,    \* the event handler has used the members after ~log_monitor
  ticks,           \* number of ticks started
  writes           \* number of modifications of the file system after construction

vars == <<fs, present, targets, size_is_signed, pc, cur, stream, read_position,
          initial_lines_, read_position_, files_, timer_, running, tick_idx,
          log, last_read, last_branch, last_erased, scan_count, base, base_present,
          append_only, reads_since_write, released_use, ticks, writes>>

----------------------------------------------------------------------------
(* Bounds of the model *)

\* number of distinct characters (and of distinct sort keys)
NumKeys == 2
\* total number of bytes in the files when a SpecScan behaviour starts
MaxScanBytes == 6
\* total number of bytes in the files when a Spec behaviour starts
MaxInitBytes == 2
\* number of bytes one append or one rewrite can write
MaxWriteLen == 2
\* number of modifications of the live files after construction
MaxWrites == 2
\* number of ticks
MaxTicks == 3

\* log_monitor.hpp:83 has max_initial_lines = 250; the model scales the cap
\* down so that the files of a bounded behaviour can exceed it.
max_initial_lines == 2

----------------------------------------------------------------------------
(* Bytes, paths, files *)

NL == 0
Chars == 1..NumKeys
Bytes == {NL} \cup Chars
\* the bytes of the live files of a Spec behaviour: the newline and one character
WriteBytes == {NL, 1}

SeqsUpTo(S, n) == UNION {[1..k -> S] : k \in 0..n}

RotatedPath(t) == t \o ".1.txt"
LivePath(t) == t \o ".txt"
AllTargets == {"a", "b"}
Paths == {RotatedPath(t) : t \in AllTargets} \cup {LivePath(t) : t \in AllTargets}

NoStream == [pos |-> -1, eof |-> FALSE, fail |-> FALSE]
NoRead == [file |-> "", opened |-> FALSE]

\* spdlog_utility::get_sort_key: an optional key, <<>> when the line has none.
\* The key of a line is its first character; the empty line has no key.
get_sort_key(line) == IF line = <<>> THEN <<>> ELSE <<line[1]>>

\* filesystem::file_size: an optional size, <<>> when the file does not exist.
file_size(path) == IF path \in present THEN <<Len(fs[path])>> ELSE <<>>

----------------------------------------------------------------------------
(* std::ifstream *)

\* std::ifstream stream(file_path): good at position 0, or failed to open.
\* A file that does not exist cannot be opened.
OpenStream(path) == [pos |-> 0, eof |-> FALSE, fail |-> path \notin present]

\* positions (1-based) of the newlines at or after stream position p (0-based)
NewlinesFrom(data, p) == {j \in (p + 1)..Len(data) : data[j] = NL}

MinOf(S) == CHOOSE x \in S : \A y \in S : x <= y

\* std::getline(stream, line).  ok is the truth value of the returned stream.
\* No character left: eofbit and failbit.  A newline ahead: the line up to it,
\* the newline consumed.  Characters but no newline: the rest of the file is
\* the line and eofbit is set, the call succeeds.
GetLine(data, s) ==
  IF s.fail \/ s.eof
    THEN [ok |-> FALSE, line |-> <<>>, s |-> [s EXCEPT !.fail = TRUE]]
  ELSE IF s.pos >= Len(data)
    THEN [ok |-> FALSE, line |-> <<>>, s |-> [s EXCEPT !.eof = TRUE, !.fail = TRUE]]
  ELSE IF NewlinesFrom(data, s.pos) # {}
    THEN LET j == MinOf(NewlinesFrom(data, s.pos))
         IN [ok |-> TRUE, line |-> SubSeq(data, s.pos + 1, j - 1),
             s |-> [s EXCEPT !.pos = j]]
  ELSE [ok |-> TRUE, line |-> SubSeq(data, s.pos + 1, Len(data)),
        s |-> [s EXCEPT !.pos = Len(data), !.eof = TRUE]]

\* stream.tellg(): the sentry of a stream that is not good() sets failbit and
\* the call returns pos_type(-1).
TellG(s) ==
  IF s.fail \/ s.eof
    THEN [val |-> -1, s |-> [s EXCEPT !.fail = TRUE]]
    ELSE [val |-> s.pos, s |-> s]

\* stream.seekg(pos): clears eofbit; a failed stream stays failed; seeking to
\* a negative position fails.
SeekG(s, p) ==
  IF s.fail THEN s
  ELSE IF p < 0 THEN [s EXCEPT !.eof = FALSE, !.fail = TRUE]
  ELSE [s EXCEPT !.eof = FALSE, !.pos = p]

----------------------------------------------------------------------------
(* initial_lines_ *)

\* mutant: the pair is built from a line that has been moved from
EntryOfMovedLine(key, line, ord) == [first |-> key, second |-> <<>>, ord |-> ord]

\* std::make_pair(*sort_key, line); ord is the number of the line in scan order
Entry(key, line, ord) == [first |-> key, second |-> line, ord |-> ord]

InsertBefore(buf, i, e) == SubSeq(buf, 1, i - 1) \o <<e>> \o SubSeq(buf, i, Len(buf))

\* mutant: the loop stops at the first key that is greater or equal
GreaterOrEqual(buf, key) == {i \in 1..Len(buf) : key <= buf[i].first}

\* the positions the loop of add_initial_line stops at: *sort_key < it->first
GreaterThan(buf, key) == {i \in 1..Len(buf) : key < buf[i].first}

\* mutant: add_initial_line without the check "line is too old"
add_initial_line_no_front_check(buf, line, ord) ==
  LET sort_key == get_sort_key(line) IN
  IF sort_key = <<>>
    THEN [ret |-> FALSE, buf |-> buf, branch |-> "no_key"]
  ELSE LET e == Entry(sort_key[1], line, ord)
           greater == {i \in 1..Len(buf) : sort_key[1] < buf[i].first}
       IN
    IF buf = <<>>
      THEN [ret |-> TRUE, buf |-> <<e>>, branch |-> "empty"]
    ELSE IF sort_key[1] > buf[Len(buf)].first
      THEN [ret |-> TRUE, buf |-> Append(buf, e), branch |-> "back"]
    ELSE IF greater # {}
      THEN [ret |-> TRUE, buf |-> InsertBefore(buf, MinOf(greater), e),
            branch |-> "insert"]
    ELSE [ret |-> TRUE, buf |-> Append(buf, e), branch |-> "fallback"]

\* log_monitor::add_initial_line on the vector buf.  ret is the returned bool,
\* buf the vector afterwards, branch the return statement taken.  ord numbers
\* the scanned lines (it is not part of the std::pair).
add_initial_line(buf, line, ord) ==
  LET sort_key == get_sort_key(line) IN
  IF sort_key = <<>>
    THEN [ret |-> FALSE, buf |-> buf, branch |-> "no_key"]
  ELSE LET e == Entry(sort_key[1], line, ord)
           greater == GreaterThan(buf, sort_key[1])
       IN
    IF buf = <<>>
      THEN [ret |-> TRUE, buf |-> <<e>>, branch |-> "empty"]
    ELSE IF sort_key[1] < buf[1].first
      THEN [ret |-> FALSE, buf |-> buf, branch |-> "too_old"]
    ELSE IF sort_key[1] > buf[Len(buf)].first
      THEN [ret |-> TRUE, buf |-> Append(buf, e), branch |-> "back"]
    ELSE IF greater # {}
      THEN [ret |-> TRUE, buf |-> InsertBefore(buf, MinOf(greater), e),
            branch |-> "insert"]
    ELSE [ret |-> TRUE, buf |-> Append(buf, e), branch |-> "fallback"]

\* mutant: the loop erases the last entry instead of the first
EraseBack(buf) ==
  IF Len(buf) > max_initial_lines THEN SubSeq(buf, 1, max_initial_lines) ELSE buf

\* while (initial_lines_.size() > max_initial_lines) erase(begin())
RECURSIVE EraseFront(_)
EraseFront(buf) ==
  IF Len(buf) > max_initial_lines THEN EraseFront(Tail(buf)) ELSE buf

\* the body of the while loop of add_initial_lines for one line
AddAndTrim(buf, line, ord) ==
  LET r == add_initial_line(buf, line, ord)
      trimmed == IF r.ret THEN EraseFront(r.buf) ELSE r.buf
  IN [ret |-> r.ret, branch |-> r.branch, buf |-> trimmed,
      erased |-> Len(r.buf) - Len(trimmed)]

----------------------------------------------------------------------------
(* The constructor: the historical scan, then the timer *)

CurPath == IF cur[2] = 1 THEN RotatedPath(targets[cur[1]]) ELSE LivePath(targets[cur[1]])

\* mutant: the assignment is skipped when the offset is the initial 0
MapSetUnlessZero(m, k, v) ==
  IF v = 0 THEN m ELSE [x \in (DOMAIN m) \cup {k} |-> IF x = k THEN v ELSE m[x]]

\* m[k] = v on a std::unordered_map
MapSet(m, k, v) == [x \in (DOMAIN m) \cup {k} |-> IF x = k THEN v ELSE m[x]]

envVars == <<fs, present, targets, size_is_signed>>
scanVars == <<cur, stream, read_position, last_branch, last_erased, scan_count>>
tickVars == <<running, tick_idx, log, last_read, ticks, reads_since_write, released_use>>
ghostVars == <<base, base_present, append_only, writes>>

\* add_initial_lines: std::ifstream stream(file_path); std::streampos read_position;
ScanOpen ==
  /\ pc = "scan"
  /\ stream = NoStream
  /\ stream' = OpenStream(CurPath)
  /\ read_position' = 0
  /\ UNCHANGED <<envVars, pc, cur, last_branch, last_erased, scan_count, initial_lines_,
                 read_position_, files_, timer_, tickVars, ghostVars>>

\* add_initial_lines: one iteration of while (std::getline(stream, line))
ScanLine ==
  /\ pc = "scan"
  /\ stream # NoStream
  /\ LET g == GetLine(fs[CurPath], stream)
         r == AddAndTrim(initial_lines_, g.line, scan_count + 1)
         t == TellG(g.s)
     IN /\ g.ok
        /\ initial_lines_' = r.buf
        /\ last_branch' = r.branch
        /\ last_erased' = r.erased
        /\ scan_count' = scan_count + 1
        /\ read_position' = t.val
        /\ stream' = t.s
  /\ UNCHANGED <<envVars, pc, cur, read_position_, files_, timer_, tickVars, ghostVars>>

\* add_initial_lines: getline fails, read_position_[file_path] = read_position;
\* then the constructor's loop goes on to the next file.
ScanEnd ==
  /\ pc = "scan"
  /\ stream # NoStream
  /\ ~GetLine(fs[CurPath], stream).ok
  /\ read_position_' = MapSet(read_position_, CurPath, read_position)
  /\ stream' = NoStream
  /\ read_position' = 0
  /\ IF cur[2] = 1
       THEN /\ cur' = <<cur[1], 2>>
            /\ UNCHANGED <<files_, pc>>
       ELSE /\ files_' = Append(files_, CurPath)
            /\ IF cur[1] < Len(targets)
                 THEN cur' = <<cur[1] + 1, 1>> /\ pc' = pc
                 ELSE cur' = cur /\ pc' = "timer"
  /\ UNCHANGED <<envVars, last_branch, last_erased, scan_count, initial_lines_, timer_,
                 tickVars, ghostVars>>

\* dispatch_source_create fails (timer_ is null), or the timer is set up and resumed
CreateTimer ==
  /\ pc = "timer"
  /\ pc' = "done"
  /\ timer_' \in {"null", "resumed"}
  /\ base' = fs
  /\ base_present' = present
  /\ append_only' = {p \in present : \E i \in 1..Len(files_) : files_[i] = p}
  /\ UNCHANGED <<envVars, scanVars, initial_lines_, read_position_, files_, tickVars,
                 writes>>

----------------------------------------------------------------------------
(* The timer event handler and call_callback *)

\* it->second < *size.  When the type of the size is unsigned the offset is
\* converted to it, and streampos(-1) becomes the largest value of that type,
\* which no size exceeds.
OffsetLess(offset, size) ==
  IF size_is_signed \/ offset >= 0 THEN offset < size ELSE FALSE

\* mutant: the lines read are handed on last first
RECURSIVE ReadLoopLastFirst(_, _, _, _)
ReadLoopLastFirst(data, s, rp, acc) ==
  LET g == GetLine(data, s)
      t == TellG(g.s)
  IN IF ~g.ok
       THEN [lines |-> acc, read_position |-> rp]
       ELSE ReadLoopLastFirst(data, t.s, t.val,
                              <<[line |-> g.line, pos |-> s.pos,
                                 terminated |-> ~g.s.eof]>> \o acc)

\* call_callback: while (std::getline(stream, line)) { callback_(line);
\* read_position = stream.tellg(); }.  acc collects the callback invocations:
\* the line passed, the position it starts at and whether getline found its
\* newline.  rp is the local read_position.
RECURSIVE ReadLoop(_, _, _, _)
ReadLoop(data, s, rp, acc) ==
  LET g == GetLine(data, s)
      t == TellG(g.s)
  IN IF ~g.ok
       THEN [lines |-> acc, read_position |-> rp]
       ELSE ReadLoop(data, t.s, t.val,
                     Append(acc, [line |-> g.line, pos |-> s.pos,
                                  terminated |-> ~g.s.eof]))

\* log_monitor::call_callback(file_path): what it reads and the offset it
\* stores; opened is FALSE when it returns at line 128.
call_callback(file_path) ==
  LET s0 == OpenStream(file_path)
      size == file_size(file_path)
      seek == /\ file_path \in DOMAIN read_position_
              /\ size # <<>>
              /\ OffsetLess(read_position_[file_path], size[1])
      s1 == IF seek THEN SeekG(s0, read_position_[file_path]) ELSE s0
      r == ReadLoop(fs[file_path], s1, 0, <<>>)
  IN IF s0.fail
       THEN [file |-> file_path, opened |-> FALSE]
       ELSE [file |-> file_path, opened |-> TRUE, data |-> fs[file_path],
             old_offset |-> read_position_[file_path], sought |-> seek,
             start |-> s1.pos, seek_failed |-> s1.fail,
             lines |-> r.lines, read_position |-> r.read_position]

\* mutant: the handler calls call_callback for every file that has a size and
\* an entry
SizeKnown(file) ==
  /\ file_size(file) # <<>>
  /\ file \in DOMAIN read_position_

\* the condition under which the event handler calls call_callback(file)
SizeChanged(file) ==
  /\ file_size(file) # <<>>
  /\ file \in DOMAIN read_position_
  /\ read_position_[file] # file_size(file)[1]

\* mutant: the queue lets a second block start while one is running
QueueConcurrent == running <= 1

\* queue_ is a serial dispatch queue: a block starts when no block is running
QueueIdle == running = 0

\* the timer fires and the event handler block starts on queue_
TickBegin ==
  /\ pc = "done"
  /\ timer_ = "resumed"
  /\ QueueIdle
  /\ ticks < MaxTicks
  /\ running' = running + 1
  /\ tick_idx' = 1
  /\ ticks' = ticks + 1
  /\ UNCHANGED <<envVars, pc, scanVars, initial_lines_, read_position_, files_, timer_,
                 log, last_read, reads_since_write, released_use, ghostVars>>

\* mutant: the event handler also feeds the first line it reads to the buffer
HandleFileBuffering(file) ==
  LET r == call_callback(file)
  IN /\ IF SizeChanged(file)
          THEN /\ last_read' = r
               /\ IF r.opened
                    THEN /\ log' = log \o [i \in 1..Len(r.lines) |->
                                            [file |-> file, tick |-> ticks,
                                             line |-> r.lines[i].line,
                                             pos |-> r.lines[i].pos,
                                             terminated |-> r.lines[i].terminated]]
                         /\ read_position_' = MapSet(read_position_, file, r.read_position)
                         /\ reads_since_write' =
                              IF r.lines = <<>> THEN reads_since_write
                              ELSE [reads_since_write EXCEPT ![file] = @ + 1]
                         /\ initial_lines_' =
                              IF r.lines = <<>> THEN initial_lines_
                              ELSE AddAndTrim(initial_lines_, r.lines[1].line, 0).buf
                    ELSE UNCHANGED <<log, read_position_, reads_since_write,
                                     initial_lines_>>
          ELSE UNCHANGED <<last_read, log, read_position_, reads_since_write,
                           initial_lines_>>

\* the body of for (const auto& file : files_) in the event handler: the size
\* probe, the lookup in read_position_ and call_callback(file).  callback_ is
\* a non-empty std::function; log records its invocations.
HandleFile(file) ==
  LET r == call_callback(file)
  IN /\ IF SizeChanged(file)
          THEN /\ last_read' = r
               /\ IF r.opened
                    THEN /\ log' = log \o [i \in 1..Len(r.lines) |->
                                            [file |-> file, tick |-> ticks,
                                             line |-> r.lines[i].line,
                                             pos |-> r.lines[i].pos,
                                             terminated |-> r.lines[i].terminated]]
                         /\ read_position_' = MapSet(read_position_, file, r.read_position)
                         /\ reads_since_write' =
                              IF r.lines = <<>> THEN reads_since_write
                              ELSE [reads_since_write EXCEPT ![file] = @ + 1]
                    ELSE UNCHANGED <<log, read_position_, reads_since_write>>
          ELSE UNCHANGED <<last_read, log, read_position_, reads_since_write>>
     /\ UNCHANGED initial_lines_

\* The event handler block captures this.  Once ~log_monitor has returned,
\* files_, read_position_ and callback_ are destroyed, and a block that is
\* still running uses them after their release: undefined behaviour.  The
\* model lets such a step behave as if the memory were intact (below) or
\* fault (Crash), and records it in released_use.
UsesMembers == released_use' = (released_use \/ pc = "destroyed")

\* one iteration of the loop of the running event handler
TickFile ==
  /\ running > 0
  /\ tick_idx <= Len(files_)
  /\ HandleFile(files_[tick_idx])
  /\ tick_idx' = tick_idx + 1
  /\ UsesMembers
  /\ UNCHANGED <<envVars, pc, scanVars, files_, timer_, running, ticks, ghostVars>>

\* one iteration of the loop in which the file is removed after the size probe
\* of line 47 and before call_callback opens it: !stream, call_callback
\* returns at line 128
TickFileOpenFails ==
  /\ pc = "done"
  /\ running > 0
  /\ tick_idx <= Len(files_)
  /\ writes < MaxWrites
  /\ LET file == files_[tick_idx]
     IN /\ SizeChanged(file)
        /\ fs' = [fs EXCEPT ![file] = <<>>]
        /\ present' = present \ {file}
        /\ append_only' = append_only \ {file}
        /\ reads_since_write' = [reads_since_write EXCEPT ![file] = 0]
        /\ last_read' = [file |-> file, opened |-> FALSE]
  /\ writes' = writes + 1
  /\ tick_idx' = tick_idx + 1
  /\ UNCHANGED <<targets, size_is_signed, pc, scanVars, initial_lines_, read_position_,
                 files_, timer_, running, log, ticks, released_use, base, base_present>>

\* the loop finds files_.end() and the event handler block returns
TickEnd ==
  /\ running > 0
  /\ tick_idx > Len(files_)
  /\ running' = running - 1
  /\ tick_idx' = 0
  /\ UsesMembers
  /\ UNCHANGED <<envVars, pc, scanVars, initial_lines_, read_position_, files_, timer_,
                 log, last_read, ticks, reads_since_write, ghostVars>>

\* ~log_monitor on the owner's thread: dispatch_source_cancel (asynchronous: it
\* stops further firings and does not wait for a running handler),
\* dispatch_release(timer_), timer_ = 0, dispatch_release(queue_); then the
\* members are destroyed.  Nothing in it waits for the queue.
Destroy ==
  /\ pc = "done"
  /\ pc' = "destroyed"
  /\ timer_' = "null"
  /\ UNCHANGED <<envVars, scanVars, initial_lines_, read_position_, files_, tickVars,
                 ghostVars>>

\* a handler block that runs on after ~log_monitor faults on the released members
Crash ==
  /\ pc = "destroyed"
  /\ running > 0
  /\ pc' = "crashed"
  /\ running' = 0
  /\ tick_idx' = 0
  /\ released_use' = TRUE
  /\ UNCHANGED <<envVars, scanVars, initial_lines_, read_position_, files_, timer_,
                 log, last_read, ticks, reads_since_write, ghostVars>>

----------------------------------------------------------------------------
(* The writers of the log files *)

LivePaths == {LivePath(targets[i]) : i \in 1..Len(targets)}

\* the writers act between two runs of the event handler
CanWrite == pc = "done" /\ running = 0 /\ writes < MaxWrites

\* a writer appends bytes to an existing live file
AppendBytes ==
  /\ CanWrite
  /\ \E f \in LivePaths \cap present :
     \E d \in SeqsUpTo(WriteBytes, MaxWriteLen) \ {<<>>} :
       /\ fs' = [fs EXCEPT ![f] = fs[f] \o d]
       /\ reads_since_write' = [reads_since_write EXCEPT ![f] = 0]
  /\ writes' = writes + 1
  /\ UNCHANGED <<present, targets, size_is_signed, pc, scanVars, initial_lines_,
                 read_position_, files_, timer_, running, tick_idx, log, last_read,
                 ticks, released_use, base, base_present, append_only>>

\* a live file is truncated (or created) and written anew
Rewrite ==
  /\ CanWrite
  /\ \E f \in LivePaths :
     \E d \in SeqsUpTo(WriteBytes, MaxWriteLen) :
       /\ fs' = [fs EXCEPT ![f] = d]
       /\ present' = present \cup {f}
       /\ append_only' = append_only \ {f}
       /\ reads_since_write' = [reads_since_write EXCEPT ![f] = 0]
  /\ writes' = writes + 1
  /\ UNCHANGED <<targets, size_is_signed, pc, scanVars, initial_lines_,
                 read_position_, files_, timer_, running, tick_idx, log, last_read,
                 ticks, released_use, base, base_present>>

\* a live file is removed
Remove ==
  /\ CanWrite
  /\ \E f \in LivePaths \cap present :
       /\ fs' = [fs EXCEPT ![f] = <<>>]
       /\ present' = present \ {f}
       /\ append_only' = append_only \ {f}
       /\ reads_since_write' = [reads_since_write EXCEPT ![f] = 0]
  /\ writes' = writes + 1
  /\ UNCHANGED <<targets, size_is_signed, pc, scanVars, initial_lines_,
                 read_position_, files_, timer_, running, tick_idx, log, last_read,
                 ticks, released_use, base, base_present>>

----------------------------------------------------------------------------
(* Initial states *)

\* The files of the targets hold at most budget bytes of the set bytes in
\* total, of which the
\* rotated files hold at most rotated_budget; the files of other targets do
\* not exist.  A file with no bytes exists or not.
InitFs(tgts, bytes, budget, rotated_budget) ==
  LET two == Len(tgts) > 1
      Min2(x, y) == IF x < y THEN x ELSE y
  IN
  \E d1 \in SeqsUpTo(bytes, rotated_budget) :
  \E d3 \in SeqsUpTo(bytes, IF two THEN rotated_budget - Len(d1) ELSE 0) :
  \E d2 \in SeqsUpTo(bytes, budget - Len(d1) - Len(d3)) :
  \E d4 \in SeqsUpTo(bytes, IF two THEN budget - Len(d1) - Len(d2) - Len(d3) ELSE 0) :
  \E pr \in SUBSET ({RotatedPath(tgts[i]) : i \in 1..Len(tgts)}
                    \cup {LivePath(tgts[i]) : i \in 1..Len(tgts)}) :
    /\ fs = [p \in Paths |->
              IF p = RotatedPath("a") THEN d1
              ELSE IF p = LivePath("a") THEN d2
              ELSE IF p = RotatedPath("b") THEN d3 ELSE d4]
    /\ present = pr
    /\ \A p \in Paths : fs[p] # <<>> => p \in pr
    /\ rotated_budget = 0 => \A t \in AllTargets : RotatedPath(t) \notin pr

InitObject ==
  /\ pc = "scan"
  /\ cur = <<1, 1>>
  /\ stream = NoStream
  /\ read_position = 0
  /\ initial_lines_ = <<>>
  /\ read_position_ = <<>>
  /\ files_ = <<>>
  /\ timer_ = "null"
  /\ running = 0
  /\ tick_idx = 0
  /\ log = <<>>
  /\ last_read = NoRead
  /\ last_branch = "none"
  /\ last_erased = 0
  /\ scan_count = 0
  /\ base = [p \in Paths |-> <<>>]
  /\ base_present = {}
  /\ append_only = {}
  /\ reads_since_write = [p \in Paths |-> 0]
  /\ released_use = FALSE
  /\ ticks = 0
  /\ writes = 0

\* the historical scan of one target; size_is_signed is not read by the scan
InitScan ==
  /\ targets = <<"a">>
  /\ size_is_signed = TRUE
  /\ InitFs(targets, Bytes, MaxScanBytes, MaxScanBytes)
  /\ InitObject

NextScan == ScanOpen \/ ScanLine \/ ScanEnd \/ CreateTimer

SpecScan == InitScan /\ [][NextScan]_vars

\* one or two targets whose rotated files do not exist
Init ==
  /\ targets \in {<<"a">>, <<"a", "b">>}
  /\ size_is_signed \in BOOLEAN
  /\ InitFs(targets, WriteBytes, MaxInitBytes, 0)
  /\ InitObject

Next ==
  \/ ScanOpen \/ ScanLine \/ ScanEnd \/ CreateTimer
  \/ TickBegin \/ TickFile \/ TickFileOpenFails \/ TickEnd
  \/ Destroy \/ Crash
  \/ AppendBytes \/ Rewrite \/ Remove

Spec == Init /\ [][Next]_vars

----------------------------------------------------------------------------
(* Reference definitions used to state the properties *)

\* the buffer is sorted non-decreasing by sort key
SortedByKey(buf) == \A i \in 1..(Len(buf) - 1) : buf[i].first <= buf[i + 1].first

\* the last n entries of buf
LastN(buf, n) == SubSeq(buf, Len(buf) - n + 1, Len(buf))

\* a step of the historical scan that processes one line, and that line
ScanStep == pc = "scan" /\ scan_count' = scan_count + 1
ScanInput == GetLine(fs[CurPath], stream).line

Inserted == {"empty", "back", "insert", "fallback"}

----------------------------------------------------------------------------
(* C5 *)

\* C5: after each line the historical scan processes, initial_lines_ is sorted
\* non-decreasing by sort key and holds at most max_initial_lines entries (250
\* in the source, scaled here); the line is either not buffered, leaving the
\* buffer as it was, or inserted at some position, after which entries are
\* removed from the front exactly until the size is back at the cap.
C5_SortedAndCapped ==
  [][ScanStep =>
       /\ SortedByKey(initial_lines_')
       /\ Len(initial_lines_') <= max_initial_lines
       /\ \/ initial_lines_' = initial_lines_
          \/ /\ get_sort_key(ScanInput) # <<>>
             /\ \E i \in 1..(Len(initial_lines_) + 1) :
                  LET ins == InsertBefore(initial_lines_, i,
                               Entry(get_sort_key(ScanInput)[1], ScanInput, scan_count'))
                  IN initial_lines_' =
                       IF Len(ins) > max_initial_lines
                         THEN LastN(ins, max_initial_lines) ELSE ins]_vars

\* the scan inserted a line into a full buffer and erased the front entry
C5_Witness ==
  /\ last_branch \in Inserted
  /\ last_erased = 1
  /\ Len(initial_lines_) = max_initial_lines
  /\ Len(initial_lines_) >= 2

----------------------------------------------------------------------------
(* C7 *)

\* C7: two buffered lines with equal sort keys are in scan order: the one
\* scanned later is positioned after the one scanned earlier.
C7_StableTies ==
  \A i, j \in 1..Len(initial_lines_) :
    (i < j /\ initial_lines_[i].first = initial_lines_[j].first)
      => initial_lines_[i].ord < initial_lines_[j].ord

\* two lines with equal keys are buffered next to a line with a larger key,
\* after an eviction from the front
C7_Witness ==
  /\ Len(initial_lines_) >= 2
  /\ initial_lines_[1].first = initial_lines_[2].first
  /\ last_branch \in {"insert", "fallback"}
  /\ last_erased = 1

----------------------------------------------------------------------------
(* C8 *)

\* C8: processing a line whose sort key is strictly smaller than the first key
\* of a non-empty buffer leaves the buffer unchanged, every time it happens.
C8_OlderLineIsNoOp ==
  [][(/\ ScanStep
      /\ initial_lines_ # <<>>
      /\ get_sort_key(ScanInput) # <<>>
      /\ get_sort_key(ScanInput)[1] < initial_lines_[1].first)
       => initial_lines_' = initial_lines_]_vars

\* a line older than the first entry was processed while the buffer was full
C8_Witness ==
  /\ last_branch = "too_old"
  /\ Len(initial_lines_) = max_initial_lines

----------------------------------------------------------------------------
(* C6 *)

\* the lines the historical scan reads from a file, a trailing unterminated
\* fragment included
ScannedLines(path) == ReadLoop(fs[path], OpenStream(path), 0, <<>>).lines

\* number of scanned lines of all files with sort key k
ScannedWithKey(k) ==
  LET n(path) == Cardinality({i \in 1..Len(ScannedLines(path)) :
                               get_sort_key(ScannedLines(path)[i].line) = <<k>>})
  IN n(RotatedPath("a")) + n(LivePath("a")) + n(RotatedPath("b")) + n(LivePath("b"))

RECURSIVE ScannedAbove(_)
ScannedAbove(k) ==
  IF k >= NumKeys THEN 0 ELSE ScannedWithKey(k + 1) + ScannedAbove(k + 1)

\* how many lines with key k are among the max_initial_lines largest keys
InWindow(k) ==
  LET room == max_initial_lines - ScannedAbove(k)
  IN IF room <= 0 THEN 0
     ELSE IF ScannedWithKey(k) < room THEN ScannedWithKey(k) ELSE room

\* C6: after construction the keys held in initial_lines_ are exactly the
\* min(max_initial_lines, n) largest keys among the n keyed lines scanned.
C6_MostRecentWindow ==
  pc = "done" =>
    \A k \in Chars :
      Cardinality({i \in 1..Len(initial_lines_) : initial_lines_[i].first = k})
        = InWindow(k)

----------------------------------------------------------------------------
(* Reference definitions for the incremental read *)

\* the byte position immediately after the last newline of data, 0 if none
LastNLPos(data) ==
  LET nls == {j \in 1..Len(data) : data[j] = NL}
  IN IF nls = {} THEN 0 ELSE CHOOSE j \in nls : \A k \in nls : k <= j

\* the newline-terminated lines of data that start at or after position p
RECURSIVE CompleteLines(_, _)
CompleteLines(data, p) ==
  IF \A j \in (p + 1)..Len(data) : data[j] # NL
    THEN <<>>
    ELSE LET j == CHOOSE j \in (p + 1)..Len(data) :
                    data[j] = NL /\ \A k \in (p + 1)..(j - 1) : data[k] # NL
         IN <<[pos |-> p, line |-> SubSeq(data, p + 1, j - 1)]>> \o CompleteLines(data, j)

\* the unterminated bytes at the end of data
Fragment(data) == SubSeq(data, LastNLPos(data) + 1, Len(data))

\* off is the start of the file or the position right after a newline
AtLineEnd(data, off) == off = 0 \/ (off \in 1..Len(data) /\ data[off] = NL)

PosAndLine(entries) == [i \in 1..Len(entries) |->
                         [pos |-> entries[i].pos, line |-> entries[i].line]]

IsPrefix(s, t) == Len(s) <= Len(t) /\ \A i \in 1..Len(s) : s[i] = t[i]

----------------------------------------------------------------------------
(* C1 *)

\* the callback invocations for file f that passed a newline-terminated line
\* starting at or after position b
DeliveredFrom(f, b) ==
  SelectSeq(log, LAMBDA e : e.file = f /\ e.terminated /\ e.pos >= b)

\* C1: for a live file only appended to since construction, the lines whose
\* newline was appended are passed to the callback at most once, in file
\* order, with their text; and a read that starts right after a newline and
\* finds k complete lines and nothing else invokes the callback exactly k
\* times, with those lines.
C1_AppendedLinesOnce ==
  /\ \A f \in append_only :
       IsPrefix(PosAndLine(DeliveredFrom(f, LastNLPos(base[f]))),
                CompleteLines(fs[f], LastNLPos(base[f])))
  /\ (/\ last_read.opened
      /\ last_read.file \in append_only
      /\ last_read.old_offset >= 0
      /\ AtLineEnd(last_read.data, last_read.old_offset)
      /\ Fragment(last_read.data) = <<>>)
       => PosAndLine(last_read.lines)
            = CompleteLines(last_read.data, last_read.old_offset)

----------------------------------------------------------------------------
(* C2 *)

\* C2: an incremental read that starts at the recorded offset and finds two
\* complete lines A and B followed by an unterminated fragment C invokes the
\* callback for A and B only and records the position right after B's newline.
C2_FragmentLeftUnread ==
  (/\ last_read.opened
   /\ ~last_read.seek_failed
   /\ last_read.start = last_read.old_offset
   /\ Len(CompleteLines(last_read.data, last_read.start)) = 2
   /\ Fragment(last_read.data) # <<>>)
    => /\ PosAndLine(last_read.lines) = CompleteLines(last_read.data, last_read.start)
       /\ last_read.read_position = LastNLPos(last_read.data)

----------------------------------------------------------------------------
(* C3 *)

\* C3: every offset in read_position_ is non-negative, and the offset a scan
\* or an incremental read stores is the start of the file or the position
\* right after a newline of the content read, never inside or after a trailing
\* unterminated fragment.
C3_OffsetsAtLineEnds ==
  /\ \A p \in DOMAIN read_position_ : read_position_[p] >= 0
  /\ pc \in {"scan", "timer"} =>
       \A p \in DOMAIN read_position_ : AtLineEnd(fs[p], read_position_[p])
  /\ last_read.opened => AtLineEnd(last_read.data, last_read.read_position)

----------------------------------------------------------------------------
(* C4 *)

\* a read of a file whose size is smaller than the recorded offset starts at
\* byte 0 and passes each complete line of the new content once, in order
TruncatedReadFromStart ==
  (last_read.opened /\ last_read.old_offset > Len(last_read.data))
    => /\ last_read.start = 0
       /\ ~last_read.seek_failed
       /\ PosAndLine(SelectSeq(last_read.lines, LAMBDA e : e.terminated))
            = CompleteLines(last_read.data, 0)

\* C4: a file truncated and rewritten to a size smaller than the recorded
\* offset is read from byte 0, the callback invoked once for each complete
\* line of the new content; in general a read starts at the recorded offset
\* when offset < current size and at the start of the file otherwise.
C4_ReadStart ==
  /\ TruncatedReadFromStart
  /\ last_read.opened =>
       /\ ~last_read.seek_failed
       /\ last_read.start = IF last_read.old_offset < Len(last_read.data)
                              THEN last_read.old_offset ELSE 0

\* the statement of C4 for recorded offsets that are valid positions
C4_ReadStartValidOffset ==
  /\ TruncatedReadFromStart
  /\ (last_read.opened /\ last_read.old_offset >= 0) =>
       /\ ~last_read.seek_failed
       /\ last_read.start = IF last_read.old_offset < Len(last_read.data)
                              THEN last_read.old_offset ELSE 0

----------------------------------------------------------------------------
(* C9 *)

\* C9: once construction has finished no step changes initial_lines_.
C9_InitialLinesFixed == [][pc = "done" => initial_lines_' = initial_lines_]_vars

\* a tick has passed a line with a sort key to the callback after a live file
\* was modified, and the buffer holds a line
C9_Witness ==
  /\ pc = "done"
  /\ initial_lines_ # <<>>
  /\ writes >= 1
  /\ \E i \in 1..Len(log) : get_sort_key(log[i].line) # <<>>

----------------------------------------------------------------------------
(* C10 *)

\* C10: at most one event handler block executes at any time, and none
\* executes, has executed or has invoked the callback before the historical
\* scan has finished.
C10_SerialTicks ==
  /\ running <= 1
  /\ pc \in {"scan", "timer"} => (running = 0 /\ ticks = 0 /\ log = <<>>)

\* the second tick is handling the second of two monitored files, after
\* callbacks were invoked
C10_Witness ==
  /\ running = 1
  /\ ticks >= 2
  /\ Len(files_) = 2
  /\ tick_idx = 2
  /\ log # <<>>

----------------------------------------------------------------------------
(* C11 *)

\* C11: when the monitor is destroyed while a tick is executing, the tick has
\* finished when the destructor has released the monitor's state: no handler
\* block is running once the object is destroyed, and no handler step ever
\* uses the members after their release.
C11_TickDrainedBeforeRelease ==
  /\ pc = "destroyed" => running = 0
  /\ ~released_use

----------------------------------------------------------------------------
(* C12 *)

\* the paths the constructor passes to add_initial_lines
ScanPaths == {RotatedPath(targets[i]) : i \in 1..Len(targets)} \cup LivePaths

\* C12 as stated: after the scan, read_position_ has no key for a path that
\* could not be opened.
C12_NoEntryForMissingFile ==
  pc = "timer" => \A p \in ScanPaths \ present : p \notin DOMAIN read_position_

\* C12, amended: for a file that cannot be opened the scan processes no line
\* and leaves initial_lines_ as it is, and it records offset 0 for the path:
\* after the scan read_position_ maps every such path to 0.
C12_MissingFileGetsOffsetZero ==
  /\ [](pc = "timer" =>
          \A p \in ScanPaths \ present :
            p \in DOMAIN read_position_ /\ read_position_[p] = 0)
  /\ [][(pc = "scan" /\ CurPath \notin present) =>
          /\ scan_count' = scan_count
          /\ initial_lines_' = initial_lines_]_vars

\* the scan is over, a file was missing and lines of another file were processed
C12_Witness ==
  /\ pc = "timer"
  /\ \E p \in ScanPaths \ present : p \in DOMAIN read_position_
  /\ scan_count > 0

----------------------------------------------------------------------------
(* C13 *)

\* the live files that did not exist when construction finished
LateFiles == IF pc \in {"scan", "timer"} THEN {} ELSE LivePaths \ base_present

Delivered(f) == {i \in 1..Len(log) : log[i].file = f}

\* a step of the event handler's loop while the object is alive, and its file
TickStep == pc = "done" /\ running > 0 /\ tick_idx <= Len(files_) /\ tick_idx' = tick_idx + 1
TickInput == files_[tick_idx]

\* C13 as stated: a live file that did not exist during the historical scan
\* is never read by a tick and the callback is never invoked for its lines.
C13_LateFileNeverPolled ==
  \A f \in LateFiles : last_read.file # f /\ Delivered(f) = {}

\* C13, amended: a live file that did not exist during the historical scan
\* and is created afterwards is polled: the first tick that finds it with a
\* non-zero size and can open it reads it from byte 0 and invokes the
\* callback for every line of it, in order.
C13_LateFileIsPolled ==
  [][(/\ TickStep
      /\ TickInput \in LateFiles \cap present
      /\ fs[TickInput] # <<>>
      /\ TickInput \in present'
      /\ Delivered(TickInput) = {}) =>
       /\ last_read'.file = TickInput
       /\ last_read'.opened
       /\ last_read'.start = 0
       /\ log' = log \o [i \in 1..Len(ScannedLines(TickInput)) |->
                          [file |-> TickInput, tick |-> ticks,
                           line |-> ScannedLines(TickInput)[i].line,
                           pos |-> ScannedLines(TickInput)[i].pos,
                           terminated |-> ScannedLines(TickInput)[i].terminated]]]_vars

\* the callback has been invoked for a file created after construction
C13_Witness == \E f \in LateFiles : Delivered(f) # {}

----------------------------------------------------------------------------
(* C14 *)

\* the lines the historical scan reads, in scan order: for each target the
\* rotated file, then the live file
RECURSIVE ScannedOfTargets(_)
ScannedOfTargets(n) ==
  IF n = 0 THEN <<>>
  ELSE ScannedOfTargets(n - 1) \o ScannedLines(RotatedPath(targets[n]))
                               \o ScannedLines(LivePath(targets[n]))

AllScanned == ScannedOfTargets(Len(targets))

\* C14: every entry of initial_lines_ is the pair (key, line) of a line the
\* scan has processed, where key is the key get_sort_key yields for that line;
\* so a line for which get_sort_key yields no key is never in the buffer.
C14_EntriesAreKeyedScannedLines ==
  \A i \in 1..Len(initial_lines_) :
    LET e == initial_lines_[i] IN
    /\ e.ord \in 1..scan_count
    /\ e.ord <= Len(AllScanned)
    /\ e.second = AllScanned[e.ord].line
    /\ get_sort_key(e.second) = <<e.first>>

\* the scan has just discarded a line without key while the buffer holds lines
C14_Witness ==
  /\ last_branch = "no_key"
  /\ initial_lines_ # <<>>
  /\ scan_count >= 2

----------------------------------------------------------------------------
(* C15 *)

\* the offset entries of the paths in S are the same before and after the step
SameOffsets(S) ==
  \A p \in S : /\ p \in DOMAIN read_position_ <=> p \in DOMAIN read_position_'
               /\ p \in DOMAIN read_position_ => read_position_'[p] = read_position_[p]

\* C15: when the event handler handles a file whose size probe returns
\* absent, whose recorded offset equals its size, or which call_callback
\* cannot open, the file's offset entry is unchanged and the callback is not
\* invoked; and handling a file never changes the offset entry of another path.
C15_SkippedFileFrame ==
  [][TickStep =>
       /\ SameOffsets(Paths \ {TickInput})
       /\ (\/ file_size(TickInput) = <<>>
           \/ /\ TickInput \in DOMAIN read_position_
              /\ read_position_[TickInput] = file_size(TickInput)[1]
           \/ TickInput \notin present') =>
            (SameOffsets({TickInput}) /\ log' = log)]_vars

\* call_callback could not open a file whose size the handler had just probed,
\* in a tick that has delivered lines of another file
C15_Witness ==
  /\ last_read.file # ""
  /\ ~last_read.opened
  /\ \E i \in 1..Len(log) : log[i].tick = ticks /\ log[i].file # last_read.file

----------------------------------------------------------------------------
(* C16 *)

\* the position of a monitored file in files_
FileIndex(f) == CHOOSE k \in 1..Len(files_) : files_[k] = f

\* C16: the callback invocations made while the object is alive are ordered:
\* those of an earlier tick come before those of a later one; within a tick
\* those for a file earlier in files_ come before those for a later file; and
\* within one read of a file the lines are delivered in increasing position.
C16_CallbackOrder ==
  ~released_use =>
    \A i, j \in 1..Len(log) :
      i < j =>
        /\ log[i].tick <= log[j].tick
        /\ log[i].tick = log[j].tick =>
             /\ FileIndex(log[i].file) <= FileIndex(log[j].file)
             /\ log[i].file = log[j].file => log[i].pos < log[j].pos

\* one tick has delivered two lines of one file and a line of another file
C16_Witness ==
  /\ ~released_use
  /\ \E i, j, k \in 1..Len(log) :
       /\ i < j
       /\ log[i].tick = log[j].tick /\ log[i].file = log[j].file
       /\ log[k].tick = log[i].tick /\ log[k].file # log[i].file

----------------------------------------------------------------------------
(* C17 *)

\* C17: while a live file's content does not change, at most one tick invokes
\* the callback for it.
C17_UnchangedFileReadOnce ==
  ~released_use => \A f \in LivePaths : reads_since_write[f] <= 1

----------------------------------------------------------------------------
(* C18 *)

\* the lines the historical scan read from live file f
BaseLines(f) == ReadLoop(base[f], [pos |-> 0, eof |-> FALSE, fail |-> FALSE], 0, <<>>).lines

\* C18: while a live file has only been appended to since construction, no
\* line the historical scan read from it (its text at its position) is
\* passed to the callback.
C18_ScannedLinesNotDelivered ==
  ~released_use =>
    \A i \in 1..Len(log) :
      log[i].file \in append_only =>
        \A k \in 1..Len(BaseLines(log[i].file)) :
          ~ /\ BaseLines(log[i].file)[k].pos = log[i].pos
            /\ BaseLines(log[i].file)[k].line = log[i].line

----------------------------------------------------------------------------
(* C19 *)

\* C19: every text passed to the callback is one whole line of the file's
\* content at the time of the read: it starts at the beginning of a line and
\* getline found its terminating newline.
C19_WholeLinesOnly ==
  (~released_use /\ last_read.file # "" /\ last_read.opened) =>
    \A i \in 1..Len(last_read.lines) :
      /\ last_read.lines[i].terminated
      /\ AtLineEnd(last_read.data, last_read.lines[i].pos)

----------------------------------------------------------------------------
(* C20 *)

\* C20 as stated: the final push_back of add_initial_line, after the loop, is
\* never reached.
C20_FallbackNeverTaken == last_branch # "fallback"

\* C20, amended: the final push_back is reached exactly by a line whose key
\* equals the key of the last entry of a non-empty buffer (such a line passes
\* both checks and no entry has a strictly greater key); the line then becomes
\* the last entry.
C20_FallbackIffKeyEqualsLast ==
  [][ScanStep =>
       LET k == get_sort_key(ScanInput) IN
       /\ last_branch' = "fallback" <=>
            /\ k # <<>>
            /\ initial_lines_ # <<>>
            /\ k[1] = initial_lines_[Len(initial_lines_)].first
       /\ last_branch' = "fallback" =>
            /\ initial_lines_' # <<>>
            /\ initial_lines_'[Len(initial_lines_')].second = ScanInput
            /\ initial_lines_'[Len(initial_lines_')].ord = scan_count']_vars

\* a line has been appended by the final push_back behind a line of equal key
C20_Witness ==
  /\ last_branch = "fallback"
  /\ Len(initial_lines_) >= 2
  /\ initial_lines_[Len(initial_lines_)].first = initial_lines_[Len(initial_lines_) - 1].first

====
